---------------------------- MODULE Spec2Model ----------------------------
(***************************************************************************)
(* Expired-listings worker (src/index.js): the skip-trace client           *)
(* (skipTraceWithTracerfy), the CSV parsing it relies on, and the pipeline *)
(* orchestrator (processExpiredListings).                                  *)
(*                                                                         *)
(* Texts are TLA+ strings read character by character (SubSeq(s, i, i)),   *)
(* so that trimming, case folding, splitting and substring search are      *)
(* computed the way the JavaScript string methods compute them.            *)
(***************************************************************************)
EXTENDS Integers, Sequences, FiniteSets, Bags, TLC

(***************************************************************************)
(* JavaScript values and string methods                                    *)
(***************************************************************************)

\* JavaScript's undefined, null, false and true. TLC compares strings only with
\* strings, so the non-string values are spelled as reserved strings that no
\* text of the model contains.
Undefined == "<undefined>"
Null == "<null>"
JsFalse == "<false>"
JsTrue == "<true>"

\* Truthiness of the values the program tests with ||, &&, ?: and if.
Truthy(v) == v \notin {Undefined, Null, JsFalse, ""}

\* a || b
OrElse(a, b) == IF Truthy(a) THEN a ELSE b

Char(s, i) == SubSeq(s, i, i)

IsWhitespace(c) == c \in {" ", "\t", "\n", "\r"}

RECURSIVE FirstNonWs(_, _)
FirstNonWs(s, i) ==
    IF i > Len(s) THEN i
    ELSE IF IsWhitespace(Char(s, i)) THEN FirstNonWs(s, i + 1) ELSE i

RECURSIVE LastNonWs(_, _)
LastNonWs(s, i) ==
    IF i < 1 THEN 0
    ELSE IF IsWhitespace(Char(s, i)) THEN LastNonWs(s, i - 1) ELSE i

\* String.prototype.trim
Trim(s) ==
    LET a == FirstNonWs(s, 1)
        b == LastNonWs(s, Len(s))
    IN  IF a > b THEN "" ELSE SubSeq(s, a, b)

UpperChars == "ABCDEFGHIJKLMNOPQRSTUVWXYZ"
LowerChars == "abcdefghijklmnopqrstuvwxyz"

LowerChar(c) ==
    IF \E i \in 1..Len(UpperChars) : Char(UpperChars, i) = c
    THEN Char(LowerChars, CHOOSE i \in 1..Len(UpperChars) : Char(UpperChars, i) = c)
    ELSE c

\* The characters a..b of s, each lower-cased (halving keeps the evaluation shallow).
RECURSIVE ToLowerRange(_, _, _)
ToLowerRange(s, a, b) ==
    IF a > b THEN ""
    ELSE IF a = b THEN LowerChar(Char(s, a))
    ELSE LET mid == (a + b) \div 2
         IN  ToLowerRange(s, a, mid) \o ToLowerRange(s, mid + 1, b)

\* String.prototype.toLowerCase
ToLowerCase(s) == ToLowerRange(s, 1, Len(s))

\* String.prototype.includes: the empty string is included in every string.
Includes(s, sub) ==
    \E i \in 1..(Len(s) - Len(sub) + 1) : SubSeq(s, i, i + Len(sub) - 1) = sub

\* One character of a split: a separator closes the current piece.
SplitStep(st, c, sep) ==
    IF c = sep
    THEN [parts |-> Append(st.parts, st.cur), cur |-> ""]
    ELSE [parts |-> st.parts, cur |-> st.cur \o c]

\* The characters a..b of s fed to SplitStep in order; the range is halved and
\* the left half finished before the right one starts.
RECURSIVE SplitRange(_, _, _, _, _)
SplitRange(st, s, sep, a, b) ==
    IF a > b THEN st
    ELSE IF a = b THEN SplitStep(st, Char(s, a), sep)
    ELSE LET mid == (a + b) \div 2
             left == SplitRange(st, s, sep, a, mid)
         IN  IF Len(left.parts) >= 0 THEN SplitRange(left, s, sep, mid + 1, b) ELSE st

\* String.prototype.split with a one-character separator: "" splits to <<"">>.
Split(s, sep) ==
    LET st == SplitRange([parts |-> <<>>, cur |-> ""], s, sep, 1, Len(s))
    IN  Append(st.parts, st.cur)

\* v.replace(/^"|"$/g, ""): one leading and one trailing double quote removed.
StripQuotes(v) ==
    LET n == Len(v)
        lead == n >= 1 /\ Char(v, 1) = "\""
        trail == n >= 1 /\ Char(v, n) = "\"" /\ (n >= 2 \/ ~lead)
    IN  SubSeq(v, IF lead THEN 2 ELSE 1, IF trail THEN n - 1 ELSE n)

\* What character i of s becomes: a run of whitespace is replaced at its first
\* character and its other characters vanish.
UnderscoreAt(s, i) ==
    IF IsWhitespace(Char(s, i))
    THEN (IF i > 1 /\ IsWhitespace(Char(s, i - 1)) THEN "" ELSE "_")
    ELSE Char(s, i)

RECURSIVE UnderscoreWsRange(_, _, _)
UnderscoreWsRange(s, a, b) ==
    IF a > b THEN ""
    ELSE IF a = b THEN UnderscoreAt(s, a)
    ELSE LET mid == (a + b) \div 2
         IN  UnderscoreWsRange(s, a, mid) \o UnderscoreWsRange(s, mid + 1, b)

\* h.replace(/\s+/g, "_"): every run of whitespace becomes one underscore.
UnderscoreWs(s) == UnderscoreWsRange(s, 1, Len(s))

\* csvText.split("\n").filter(line => line.trim())
NonBlankLines(csvText) ==
    SelectSeq(Split(csvText, "\n"), LAMBDA line : Truthy(Trim(line)))

(***************************************************************************)
(* CSV line tokenizer                                                      *)
(***************************************************************************)

\* CSVLineStep with every comma a separator, quoted or not.
CSVLineStepAnyComma(st, char) ==
    IF char = "\""
    THEN [st EXCEPT !.inQuotes = ~st.inQuotes]
    ELSE IF char = ","
    THEN [st EXCEPT !.values = Append(st.values, Trim(st.current)), !.current = ""]
    ELSE [st EXCEPT !.current = st.current \o char]

\* The body of the for loop over the characters of the line.
CSVLineStep(st, char) ==
    IF char = "\""
    THEN [st EXCEPT !.inQuotes = ~st.inQuotes]
    ELSE IF char = "," /\ ~st.inQuotes
    THEN [st EXCEPT !.values = Append(st.values, Trim(st.current)), !.current = ""]
    ELSE [st EXCEPT !.current = st.current \o char]

\* The loop over characters a..b of the line, in order (the range is halved and
\* the left half finished before the right one starts).
RECURSIVE CSVLineRange(_, _, _, _)
CSVLineRange(st, line, a, b) ==
    IF a > b THEN st
    ELSE IF a = b THEN CSVLineStep(st, Char(line, a))
    ELSE LET mid == (a + b) \div 2
             left == CSVLineRange(st, line, a, mid)
         IN  IF left.inQuotes \in BOOLEAN
             THEN CSVLineRange(left, line, mid + 1, b)
             ELSE st

parseCSVLine(line) ==
    LET st == CSVLineRange([values |-> <<>>, current |-> "", inQuotes |-> FALSE],
                           line, 1, Len(line))
        values == Append(st.values, Trim(st.current))
    IN  [k \in DOMAIN values |-> StripQuotes(values[k])]

\* headers.forEach((header, index) => { row[header] = values[index] || "" }):
\* a header that occurs twice keeps the value of its last column.
RowObject(headers, values) ==
    [h \in {headers[i] : i \in DOMAIN headers} |->
        LET last == CHOOSE i \in DOMAIN headers :
                        /\ headers[i] = h
                        /\ \A j \in DOMAIN headers : headers[j] = h => j <= i
        IN  IF last \in DOMAIN values THEN OrElse(values[last], "") ELSE ""]

\* obj[key] of a row object: undefined when the column is not in the header.
Field(row, key) == IF key \in DOMAIN row THEN row[key] ELSE Undefined

(***************************************************************************)
(* Skip-trace result file                                                  *)
(***************************************************************************)

TracerfyHeader(h) == UnderscoreWs(ToLowerCase(StripQuotes(Trim(h))))

parseTracerfyResults(csvText) ==
    LET lines == NonBlankLines(csvText)
    IN  IF Len(lines) < 2 THEN <<>>
        ELSE LET cells == Split(lines[1], ",")
                 headers == [h \in DOMAIN cells |-> TracerfyHeader(cells[h])]
             IN  [k \in 1..(Len(lines) - 1) |->
                     RowObject(headers, parseCSVLine(lines[k + 1]))]

(***************************************************************************)
(* Listing files: parseCSV                                                 *)
(***************************************************************************)

\* [part, ...].filter(p => p && p.trim()).join(" ")
\* JoinNonBlank without the filter: every part is joined, empty or not.
RECURSIVE JoinEvery(_)
JoinEvery(parts) ==
    IF parts = <<>> THEN ""
    ELSE IF Len(parts) = 1 THEN OrElse(Head(parts), "")
    ELSE OrElse(Head(parts), "") \o " " \o JoinEvery(Tail(parts))

RECURSIVE JoinNonBlank(_)
JoinNonBlank(parts) ==
    IF parts = <<>> THEN ""
    ELSE LET rest == JoinNonBlank(Tail(parts))
             p == Head(parts)
         IN  IF ~(Truthy(p) /\ Truthy(Trim(p))) THEN rest
             ELSE IF rest = "" THEN p
             ELSE p \o " " \o rest

\* The normalized listing of one data line; address is "" when every address
\* column is blank. The columns copied without being read again by the pipeline
\* (list date, baths, square feet, agent, office, MLS number, property type,
\* status) are left out of the record.
NormalizeLine(headers, line) ==
    LET listing == RowObject(headers, parseCSVLine(line))
        addressParts == JoinNonBlank(<<Field(listing, "Street Number"),
                                       Field(listing, "Street Dir Prefix"),
                                       Field(listing, "Street Name"),
                                       Field(listing, "Street Suffix"),
                                       Field(listing, "Street Dir Suffix"),
                                       Field(listing, "Unit Number")>>)
    IN  [address |-> OrElse(addressParts, ""),
         city |-> OrElse(Field(listing, "City/Location"), ""),
         zip |-> OrElse(Field(listing, "Zip Code"), ""),
         state |-> "TX",
         price |-> OrElse(Field(listing, "List Price"), ""),
         expiredDate |-> OrElse(Field(listing, "Last Change Timestamp"), ""),
         daysOnMarket |-> OrElse(Field(listing, "DOM"), ""),
         cumulativeDaysOnMarket |-> OrElse(Field(listing, "CDOM"), ""),
         bedrooms |-> OrElse(Field(listing, "Bedrooms"), ""),
         yearBuilt |-> OrElse(Field(listing, "Year Built"), "")]

CSVHeader(h) == StripQuotes(Trim(h))

parseCSV(csvText) ==
    LET lines == NonBlankLines(csvText)
    IN  IF Len(lines) < 2 THEN <<>>
        ELSE LET cells == Split(lines[1], ",")
                 headers == [h \in DOMAIN cells |-> CSVHeader(cells[h])]
                 rows == [k \in 1..(Len(lines) - 1) |->
                             NormalizeLine(headers, lines[k + 1])]
             IN  SelectSeq(rows, LAMBDA normalized : Truthy(normalized.address))

(***************************************************************************)
(* Urgency score: calculateUrgencyScore                                    *)
(***************************************************************************)

Digits == "0123456789"

IsDigit(c) == \E d \in 1..10 : Char(Digits, d) = c

DigitValue(c) == (CHOOSE d \in 1..10 : Char(Digits, d) = c) - 1

\* The value of the digits of s from position i on, continuing from acc.
RECURSIVE DigitsValue(_, _, _)
DigitsValue(s, i, acc) ==
    IF i > Len(s) \/ ~IsDigit(Char(s, i)) THEN acc
    ELSE DigitsValue(s, i + 1, 10 * acc + DigitValue(Char(s, i)))

\* parseInt(s) || dflt: leading whitespace skipped, an optional sign, then the
\* leading digits; NaN (no digit) and 0 both give dflt.
ParseIntOr(s, dflt) ==
    LET a == FirstNonWs(s, 1)
        signed == a <= Len(s) /\ Char(s, a) \in {"-", "+"}
        d == IF signed THEN a + 1 ELSE a
        isNaN == d > Len(s) \/ ~IsDigit(Char(s, d))
        magnitude == DigitsValue(s, d, 0)
        value == IF signed /\ Char(s, a) = "-" THEN 0 - magnitude ELSE magnitude
    IN  IF isNaN \/ value = 0 THEN dflt ELSE value

RECURSIVE RemoveCharsRange(_, _, _, _)
RemoveCharsRange(s, drop, a, b) ==
    IF a > b THEN ""
    ELSE IF a = b THEN (IF Char(s, a) \in drop THEN "" ELSE Char(s, a))
    ELSE LET mid == (a + b) \div 2
         IN  RemoveCharsRange(s, drop, a, mid) \o RemoveCharsRange(s, drop, mid + 1, b)

\* price.replace(/[,$]/g, "")
StripCurrency(s) == RemoveCharsRange(s, {",", "$"}, 1, Len(s))

\* The clock of the run: Date.now() as a day number and the current year.
NowDay == 20758
NowYear == 2026

\* A JavaScript number: NaN, or an integer value.
Num(n) == [nan |-> FALSE, value |-> n]
NaN == [nan |-> TRUE, value |-> 0]

\* a <= b on JavaScript numbers: every comparison with NaN is false.
NumLeq(a, n) == ~a.nan /\ a.value <= n

\* new Date(text).getTime() in whole days, for the timestamps the listing files
\* of the model carry; any other text is an invalid date (NaN).
DateDay(text) ==
    CASE text = "2026-10-31" -> Num(20757)
      [] text = "2026-10-27" -> Num(20753)
      [] text = "2026-10-20" -> Num(20746)
      [] text = "2026-10-05" -> Num(20731)
      [] text = "2026-08-01" -> Num(20666)
      [] text = "2026-12-01" -> Num(20788)
      [] OTHER -> NaN

\* Math.floor((Date.now() - expiredDate.getTime()) / day), 999 without a date
DaysSinceExpired(expiredDate) ==
    IF ~Truthy(expiredDate) THEN Num(999)
    ELSE IF DateDay(expiredDate).nan THEN NaN
    ELSE Num(NowDay - DateDay(expiredDate).value)

\* Round half up from hundredths to tenths: Math.round(score * 10)
RoundTenths(hundredths) == (hundredths + 5) \div 10

Min(a, b) == IF a <= b THEN a ELSE b

\* The six additions to score, in hundredths of a point.

\* Motivation with strict thresholds.
MotivationStrict(dom) ==
    IF dom > 180 THEN 200
    ELSE IF dom > 90 THEN 150
    ELSE IF dom > 45 THEN 100
    ELSE 50

\* Factor 1: days on market
Motivation(dom) ==
    IF dom >= 180 THEN 200
    ELSE IF dom >= 90 THEN 150
    ELSE IF dom >= 45 THEN 100
    ELSE 50

\* Factor 2: days since the listing expired
Freshness(daysSinceExpired) ==
    IF NumLeq(daysSinceExpired, 3) THEN 200
    ELSE IF NumLeq(daysSinceExpired, 7) THEN 150
    ELSE IF NumLeq(daysSinceExpired, 14) THEN 100
    ELSE IF NumLeq(daysSinceExpired, 30) THEN 50
    ELSE 0

\* RepeatFailure adding nothing for a first attempt.
RepeatFailureFromZero(cdom, dom) ==
    IF cdom > dom * 2 THEN 200
    ELSE IF 2 * cdom > 3 * dom THEN 150
    ELSE IF cdom > dom THEN 100
    ELSE 0

\* Factor 3: cumulative days on market against days on market
RepeatFailure(cdom, dom) ==
    IF cdom > dom * 2 THEN 200
    ELSE IF 2 * cdom > 3 * dom THEN 150
    ELSE IF cdom > dom THEN 100
    ELSE 50

\* Factor 4: list price
PricePoint(price) ==
    IF price > 0 /\ price < 150000 THEN 200
    ELSE IF price >= 150000 /\ price < 250000 THEN 150
    ELSE IF price >= 250000 /\ price < 400000 THEN 100
    ELSE IF price >= 400000 /\ price < 600000 THEN 50
    ELSE 0

\* Factor 5: age of the property
PropertyAge(propertyAge) ==
    IF propertyAge <= 15 THEN 100
    ELSE IF propertyAge <= 30 THEN 50
    ELSE 0

\* The bedroom bonus
Bedrooms(beds) ==
    IF beds >= 3 /\ beds <= 4 THEN 100
    ELSE IF beds = 2 \/ beds = 5 THEN 50
    ELSE 0

\* What calculateUrgencyScore adds to score, in the order it adds it.
Contributions(listing) ==
    LET dom == ParseIntOr(listing.daysOnMarket, 0)
        cdom == ParseIntOr(listing.cumulativeDaysOnMarket, 0)
        price == ParseIntOr(StripCurrency(listing.price), 0)
        daysSinceExpired == DaysSinceExpired(listing.expiredDate)
        yearBuilt == ParseIntOr(listing.yearBuilt, 2000)
        beds == ParseIntOr(listing.bedrooms, 0)
    IN  [motivation |-> Motivation(dom),
         freshness |-> Freshness(daysSinceExpired),
         repeatFailure |-> RepeatFailure(cdom, dom),
         pricePoint |-> PricePoint(price),
         age |-> PropertyAge(NowYear - yearBuilt),
         bedrooms |-> Bedrooms(beds)]

\* The sum of the additions, in hundredths of a point.
Total(c) ==
    c.motivation + c.freshness + c.repeatFailure + c.pricePoint + c.age + c.bedrooms

\* Capped without the division and the cap: Math.round(score * 10).
CappedUndivided(hundredths) == hundredths

\* Math.min(10, Math.round(score * 10) / 10), in tenths of a point.
Capped(hundredths) == Min(100, RoundTenths(hundredths))

\* The score in tenths of a point.
calculateUrgencyScore(listing) == Capped(Total(Contributions(listing)))

(***************************************************************************)
(* A call of one of the pure functions on its own                          *)
(***************************************************************************)

VARIABLES
    fnPc,      \* "idle", "ready" with an argument, or "returned"
    fnArg,     \* the argument of the call
    fnResult,  \* the value returned
    fnTrace    \* what the call did on the way (the additions to score)

fnVars == <<fnPc, fnArg, fnResult, fnTrace>>

\* No such call is made.
FnIdle ==
    /\ fnPc = "idle"
    /\ fnArg = Undefined
    /\ fnResult = Undefined
    /\ fnTrace = Undefined

(***************************************************************************)
(* Skip-trace client: skipTraceWithTracerfy                                *)
(***************************************************************************)

VARIABLES
    stPc,          \* position in skipTraceWithTracerfy
    stListings,    \* the listings argument
    queueId,       \* submitResult.queue_id || submitResult.id
    attempts,      \* poll attempts used
    downloadUrl,   \* result location, Null until a status response gives one
    stResults,     \* the rows parsed from the downloaded result file
    stReturn,      \* the value returned to the caller
    stRaised,      \* TRUE when an exception leaves the function
    stFailure,     \* why the call ended without enrichment ("none" if it did not)
    lastStatus,    \* the last status response received
    readySeen,     \* some status response so far was successful, complete and located
    nSubmit,       \* submission requests made
    nWait,         \* 10-second waits made
    nStatus,       \* status requests made
    nDownload      \* download requests made

stVars == <<stPc, stListings, queueId, attempts, downloadUrl, stResults, stReturn, stRaised,
            stFailure, lastStatus, readySeen, nSubmit, nWait, nStatus, nDownload>>

\* const maxAttempts = 12
maxAttempts == 12

\* PollAgain with the bound off by one: while (attempts <= maxAttempts)
PollAgainInclusive(n) == n <= maxAttempts

\* The loop condition: while (attempts < maxAttempts)
PollAgain(n) == n < maxAttempts

\* IsComplete taking every status but "pending" for completion.
IsCompleteUnlessPending(statusResult) ==
    OrElse(statusResult.status, statusResult.state) # "pending"

\* statusResult.status || statusResult.state, and the accepted spellings
IsComplete(statusResult) ==
    LET status == OrElse(statusResult.status, statusResult.state)
    IN  \/ status = "completed"
        \/ status = "complete"
        \/ status = "done"
        \/ statusResult.pending = JsFalse

ResultUrl(statusResult) ==
    OrElse(OrElse(OrElse(statusResult.download_url, statusResult.result_url),
                  statusResult.file_url),
           statusResult.url)

\* The template literal `${first_name || ""} ${last_name || ""}`.trim(), chosen
\* by (owner_name || first_name): || binds tighter than ?:.
OwnerName(match) ==
    IF Truthy(OrElse(Field(match, "owner_name"), Field(match, "first_name")))
    THEN Trim(OrElse(Field(match, "first_name"), "") \o " "
              \o OrElse(Field(match, "last_name"), ""))
    ELSE ""

OwnerPhone(match) ==
    OrElse(OrElse(OrElse(Field(match, "mobile_1"), Field(match, "landline_1")),
                  Field(match, "phone_1")),
           "")

OwnerEmail(match) ==
    OrElse(OrElse(Field(match, "email_1"), Field(match, "email")), "")

OwnerMailingAddress(match) == OrElse(Field(match, "mail_address"), "")

OwnerFields == {"ownerName", "ownerPhone", "ownerEmail", "ownerMailingAddress"}

\* { ...listing, ownerName, ownerPhone, ownerEmail, ownerMailingAddress }
Attach(listing, match) ==
    [k \in DOMAIN listing \cup OwnerFields |->
        CASE k = "ownerName" -> OwnerName(match)
          [] k = "ownerPhone" -> OwnerPhone(match)
          [] k = "ownerEmail" -> OwnerEmail(match)
          [] k = "ownerMailingAddress" -> OwnerMailingAddress(match)
          [] OTHER -> listing[k]]

\* AddressMatches with a guard that passes over rows without an address.
AddressMatchesNonEmpty(listing, r) ==
    LET normalizedAddress == Trim(ToLowerCase(listing.address))
        resultAddress == Trim(ToLowerCase(OrElse(Field(r, "address"), "")))
    IN  /\ resultAddress # ""
        /\ \/ Includes(resultAddress, Split(normalizedAddress, " ")[1])
           \/ Includes(normalizedAddress, Split(resultAddress, " ")[1])

\* The predicate of results.find for one listing and one result row.
AddressMatches(listing, r) ==
    LET normalizedAddress == Trim(ToLowerCase(listing.address))
        resultAddress == Trim(ToLowerCase(OrElse(Field(r, "address"), "")))
    IN  \/ Includes(resultAddress, Split(normalizedAddress, " ")[1])
        \/ Includes(normalizedAddress, Split(resultAddress, " ")[1])

\* FindMatch keeping the last matching row instead of the first.
FindMatchLast(listing, results) ==
    LET hits == {j \in DOMAIN results : AddressMatches(listing, results[j])}
    IN  IF hits = {} THEN 0
        ELSE CHOOSE j \in hits : \A k \in hits : j >= k

\* results.find(...): the index of the first matching row, 0 when there is none.
FindMatch(listing, results) ==
    LET hits == {j \in DOMAIN results : AddressMatches(listing, results[j])}
    IN  IF hits = {} THEN 0
        ELSE CHOOSE j \in hits : \A k \in hits : j <= k

\* listings.map(listing => match ? {...listing, owner fields} : listing)
MatchBack(listings, results) ==
    [i \in DOMAIN listings |->
        LET j == FindMatch(listings[i], results)
        IN  IF j = 0 THEN listings[i] ELSE Attach(listings[i], results[j])]

\* CatchError without the catch: the exception leaves the function.
CatchErrorRethrow(listings) == [ret |-> <<>>, raised |-> TRUE]

\* catch (error) { console.error(...); return listings; }
CatchError(listings) == [ret |-> listings, raised |-> FALSE]

(***************************************************************************)
(* What the skip-trace service may answer                                  *)
(***************************************************************************)

Payload(status, state, pending, download_url, result_url, file_url, url) ==
    [status |-> status, state |-> state, pending |-> pending,
     download_url |-> download_url, result_url |-> result_url,
     file_url |-> file_url, url |-> url]

NoPayload ==
    Payload(Undefined, Undefined, Undefined, Undefined, Undefined, Undefined, Undefined)

\* Status payloads: every accepted spelling of completion and of the result
\* location, and the payloads that have only one of the two.
StatusPayloads ==
    { Payload("completed", Undefined, Undefined, "u1", Undefined, Undefined, Undefined),
      Payload(Undefined, "done", Undefined, Undefined, Undefined, Undefined, "u4"),
      Payload(Undefined, Undefined, JsFalse, Undefined, "u2", Undefined, Undefined),
      Payload("complete", Undefined, Undefined, Undefined, Undefined, "u3", Undefined),
      Payload("", "complete", Undefined, Undefined, "u2", Undefined, Undefined),
      Payload("completed", Undefined, Undefined, Undefined, Undefined, Undefined, Undefined),
      Payload("completed", Undefined, Undefined, "", Undefined, Undefined, Undefined),
      Payload("processing", Undefined, JsTrue, "u1", Undefined, Undefined, Undefined),
      Payload("failed", "done", Undefined, Undefined, Undefined, Undefined, "u4"),
      Payload(Undefined, Undefined, "false", "u1", Undefined, Undefined, Undefined),
      Payload("pending", Undefined, JsTrue, Undefined, Undefined, Undefined, Undefined),
      NoPayload }

\* A response to the status request: the fetch throws, answers non-success,
\* answers success with a body that is not JSON, or answers success with a payload.
StatusResponses ==
    { [kind |-> k, body |-> NoPayload] : k \in {"throw", "notok", "badjson"} }
    \cup { [kind |-> "ok", body |-> b] : b \in StatusPayloads }

NoResponse == [kind |-> "none", body |-> NoPayload]

\* Bodies of the submission response: { queue_id }, { id }, or neither.
SubmitResults ==
    { [queue_id |-> "q1", id |-> Undefined],
      [queue_id |-> Undefined, id |-> "q2"],
      [queue_id |-> Undefined, id |-> Undefined] }

ResultHeader ==
    "Address,Owner Name,First Name,Last Name,Mobile 1,Landline 1,Phone 1,Email 1,Email,Mail Address"

\* Result files the service may return.
ResultTexts ==
    { ResultHeader \o "\n"
        \o "12 OAK ST,Ann Lee,Ann,Lee,555,666,777,a@x.io,,PO 1\n"
        \o "\"123 Main St, Houston\",Bob Ray,,,,666,777,,b@x.io,PO 2\n",
      ResultHeader \o "\n"
        \o "123 Main St,,Cy,Dee,,,777,,,\n"
        \o "\n"
        \o "12 Oak St,,,Eve,555,,,,,PO 3",
      "address,first_name\n",
      "Owner Name,Phone 1\nZed Poe,777",
      "Address,Owner Name\nOak 12,Flo Gee\n999 Pine,Hal Ion\n",
      "\"Address\",owner  name,First Name,landline_1\n,Ian Jay,Ian,666\n 7 Elm ,Kay El,,\n" }

\* parseTracerfyResults of each of these files, computed once.
ParsedResults == [t \in ResultTexts |-> parseTracerfyResults(t)]

Listing(address, city, score) ==
    [address |-> address, city |-> city, state |-> "TX", zip |-> "77001",
     urgencyScore |-> score, csvFilename |-> "expired-listings/a.csv"]

\* Listing sequences handed to the client when it is exercised on its own.
ListingInputs ==
    { <<>>,
      <<Listing("12 Oak St", "Houston", 75)>>,
      <<Listing("123 Main St", "Katy", 40), Listing("12 Oak St", "Houston", 75)>>,
      <<Listing("7 Elm", "Houston", 10), Listing("123 Main St", "Katy", 40),
        Listing("45 Pine Rd", "Katy", 55), Listing("12 Oak St", "Houston", 75)>> }

(***************************************************************************)
(* Steps of skipTraceWithTracerfy, one per await                           *)
(***************************************************************************)

STIdle ==
    /\ stPc = "idle" /\ stListings = <<>> /\ queueId = Undefined
    /\ attempts = 0 /\ downloadUrl = Null /\ stResults = <<>> /\ stReturn = <<>>
    /\ stRaised = FALSE /\ stFailure = "none" /\ lastStatus = NoResponse
    /\ readySeen = FALSE
    /\ nSubmit = 0 /\ nWait = 0 /\ nStatus = 0 /\ nDownload = 0

\* The call: the function is entered with its listings argument.
STBegin(listings) ==
    /\ stPc' = "submit" /\ stListings' = listings /\ queueId' = Undefined
    /\ attempts' = 0 /\ downloadUrl' = Null /\ stResults' = <<>> /\ stReturn' = <<>>
    /\ stRaised' = FALSE /\ stFailure' = "none" /\ lastStatus' = NoResponse
    /\ readySeen' = FALSE
    /\ nSubmit' = 0 /\ nWait' = 0 /\ nStatus' = 0 /\ nDownload' = 0

\* An exception inside the try block.
STThrow ==
    /\ stPc' = "done"
    /\ stReturn' = CatchError(stListings).ret
    /\ stRaised' = CatchError(stListings).raised
    /\ stFailure' = "threw"

\* return listings, after a non-success response or an exhausted poll budget
STGiveUp(why) ==
    /\ stPc' = "done"
    /\ stReturn' = stListings
    /\ stRaised' = FALSE
    /\ stFailure' = why

STSubmit ==
    /\ stPc = "submit"
    /\ nSubmit' = nSubmit + 1
    /\ \/ /\ STThrow
          /\ UNCHANGED <<queueId, attempts, downloadUrl>>
       \/ /\ STGiveUp("submit")
          /\ UNCHANGED <<queueId, attempts, downloadUrl>>
       \/ \E submitResult \in SubmitResults :
             /\ queueId' = OrElse(submitResult.queue_id, submitResult.id)
             /\ attempts' = 0
             /\ downloadUrl' = Null
             /\ stPc' = "poll"
             /\ UNCHANGED <<stReturn, stRaised, stFailure>>
    /\ UNCHANGED <<stListings, stResults, lastStatus, readySeen, nWait, nStatus, nDownload>>

\* while (attempts < maxAttempts) { await 10 seconds; ...
STWait ==
    /\ stPc = "poll"
    /\ PollAgain(attempts)
    /\ nWait' = nWait + 1
    /\ stPc' = "status"
    /\ UNCHANGED <<stListings, queueId, attempts, downloadUrl, stResults, stReturn, stRaised,
                   stFailure, lastStatus, readySeen, nSubmit, nStatus, nDownload>>

\* A response that is successful, indicates completion and carries a result
\* location, as the specification words it (recorded in readySeen).
RespReady(resp) ==
    /\ resp.kind = "ok"
    /\ \/ \E f \in {"status", "state"} :
             /\ resp.body[f] \in {"completed", "complete", "done"}
             /\ (f = "state" => resp.body.status \in {Undefined, ""})
       \/ resp.body.pending = JsFalse
    /\ \E f \in {"download_url", "result_url", "file_url", "url"} :
          resp.body[f] \notin {Undefined, ""}

\* Break on any response that carries a result location.
BreakOnUrl(isComplete, resultUrl) == Truthy(resultUrl)

\* if (isComplete && resultUrl) { downloadUrl = resultUrl; break; }
Break(isComplete, resultUrl) == isComplete /\ Truthy(resultUrl)

\* ... the status request and what the loop does with the response
STStatus ==
    /\ stPc = "status"
    /\ nStatus' = nStatus + 1
    /\ \E resp \in StatusResponses :
          /\ lastStatus' = resp
          /\ readySeen' = (readySeen \/ RespReady(resp))
          /\ CASE resp.kind \in {"throw", "badjson"} ->
                    /\ STThrow
                    /\ UNCHANGED <<attempts, downloadUrl>>
               [] resp.kind = "notok" ->
                    /\ attempts' = attempts + 1
                    /\ stPc' = "poll"
                    /\ UNCHANGED <<downloadUrl, stReturn, stRaised, stFailure>>
               [] OTHER ->
                    LET statusResult == resp.body
                        isComplete == IsComplete(statusResult)
                        resultUrl == ResultUrl(statusResult)
                    IN  IF Break(isComplete, resultUrl)
                        THEN /\ downloadUrl' = resultUrl
                             /\ stPc' = "check"
                             /\ UNCHANGED <<attempts, stReturn, stRaised, stFailure>>
                        ELSE /\ attempts' = attempts + 1
                             /\ stPc' = "poll"
                             /\ UNCHANGED <<downloadUrl, stReturn, stRaised, stFailure>>
    /\ UNCHANGED <<stListings, queueId, stResults, nSubmit, nWait, nDownload>>

\* The loop condition fails: attempts has reached maxAttempts.
STLoopExit ==
    /\ stPc = "poll"
    /\ ~PollAgain(attempts)
    /\ stPc' = "check"
    /\ UNCHANGED <<stListings, queueId, attempts, downloadUrl, stResults, stReturn, stRaised,
                   stFailure, lastStatus, readySeen, nSubmit, nWait, nStatus, nDownload>>

\* if (!downloadUrl) return listings
STNoUrl ==
    /\ stPc = "check"
    /\ ~Truthy(downloadUrl)
    /\ STGiveUp("timeout")
    /\ UNCHANGED <<stListings, queueId, attempts, downloadUrl, stResults, lastStatus, readySeen,
                   nSubmit, nWait, nStatus, nDownload>>

\* The download, the parse of the result file and the match-back.
STDownload ==
    /\ stPc = "check"
    /\ Truthy(downloadUrl)
    /\ nDownload' = nDownload + 1
    /\ \/ STThrow /\ UNCHANGED stResults
       \/ STGiveUp("download") /\ UNCHANGED stResults
       \/ \E resultsCsv \in ResultTexts :
             LET results == ParsedResults[resultsCsv]
             IN  /\ stResults' = results
                 /\ stReturn' = MatchBack(stListings, results)
                 /\ stRaised' = FALSE
                 /\ stFailure' = "none"
                 /\ stPc' = "done"
    /\ UNCHANGED <<stListings, queueId, attempts, downloadUrl, lastStatus, readySeen,
                   nSubmit, nWait, nStatus>>

STStep == STSubmit \/ STWait \/ STStatus \/ STLoopExit \/ STNoUrl \/ STDownload

(***************************************************************************)
(* Listing files in the bucket                                             *)
(***************************************************************************)

\* Decimal digits of a natural number.
RECURSIVE Decimal(_)
Decimal(n) ==
    IF n < 10 THEN Char(Digits, n + 1)
    ELSE Decimal(n \div 10) \o Char(Digits, (n % 10) + 1)

FileHeader ==
    "Street Number,Street Dir Prefix,Street Name,Street Suffix,Street Dir Suffix,"
    \o "Unit Number,City/Location,Zip Code,List Price,Last Change Timestamp,"
    \o "DOM,CDOM,Bedrooms,Year Built"

\* Two listings, a row without an address and a blank line.
SmallCsv ==
    FileHeader \o "\n"
    \o "12,,Oak,St,,,Houston,77001,140000,2026-10-31,200,200,3,2015\n"
    \o "\n"
    \o ",,,,,,Katy,77002,99000,2026-10-31,10,10,3,2020\n"
    \o "\"123\",,\"Main\",St,,,Katy,77002,\"$700,000\",2026-08-01,20,20,1,1960\n"

OneCsv ==
    FileHeader \o "\n"
    \o "7,N,Elm,Ave,,\"Apt 4\",Houston,77003,250000,bad date,90,136,5,\n"

EmptyCsv == FileHeader \o "\n"

\* Rows of the large file: one more than the analysis cap.
BigRows == 21

\* Row k of the large file; DOM, price, date and bedrooms vary with k so that
\* scores differ and repeat.
BigRow(k) ==
    Decimal(k) \o ",,Birch,Ln,,,Houston,77004,"
    \o Decimal(100000 + 90000 * (k % 7)) \o ","
    \o (IF k % 3 = 0 THEN "2026-10-27" ELSE IF k % 3 = 1 THEN "2026-10-05" ELSE "")
    \o "," \o Decimal(30 * (k % 8)) \o "," \o Decimal(45 * (k % 5)) \o ","
    \o Decimal(k % 6) \o "," \o Decimal(1990 + k)

RECURSIVE BigLines(_)
BigLines(k) ==
    IF k = 0 THEN "" ELSE BigLines(k - 1) \o BigRow(k) \o "\n"

BigCsv == FileHeader \o "\n" \o BigLines(BigRows)

Object(key, text) == [key |-> key, text |-> text]

\* Contents of the bucket under the prefix, in listing order: small buckets,
\* and one with a file longer than the analysis cap.
SmallBuckets ==
    { <<>>,
      <<Object("expired-listings/notes.txt", "not a listing file")>>,
      <<Object("expired-listings/a.csv", SmallCsv),
        Object("expired-listings/notes.txt", "not a listing file"),
        Object("expired-listings/one.csv", OneCsv)>>,
      <<Object("expired-listings/none.csv", EmptyCsv),
        Object("expired-listings/one.csv", OneCsv)>> }

BigBucket ==
    <<Object("expired-listings/a.csv", SmallCsv),
      Object("expired-listings/big.csv", BigCsv)>>

\* The bucket of the concurrent invocations.
RaceBucket ==
    <<Object("expired-listings/a.csv", SmallCsv),
      Object("expired-listings/notes.txt", "not a listing file")>>

Buckets == SmallBuckets \cup {BigBucket, RaceBucket}

FileTexts == {SmallCsv, OneCsv, EmptyCsv, BigCsv, "not a listing file"}

\* parseCSV of each file of the model, computed once.
ParsedFiles == [t \in FileTexts |-> parseCSV(t)]

\* EndsWith holding of every key.
EndsWithAny(key, suffix) == TRUE

\* key.endsWith(suffix)
EndsWith(key, suffix) ==
    /\ Len(key) >= Len(suffix)
    /\ SubSeq(key, Len(key) - Len(suffix) + 1, Len(key)) = suffix

(***************************************************************************)
(* Pipeline orchestrator: processExpiredListings                           *)
(***************************************************************************)

Runs == {"scheduled", "manual"}

\* Invocations started in one behaviour, and injected collaborator failures.
MaxRuns == 2
MaxFaults == 1

VARIABLES
    bucket,        \* env.R2_BUCKET: the objects under the prefix
    tracerfyKey,   \* whether env.TRACERFY_API_KEY is configured
    db,            \* env.DB: the rows of the intelligence table (a bag)
    run,           \* the invocation of each trigger: position, locals, history
    runsLeft,      \* invocations that may still start
    faults         \* collaborator failures that may still be injected

orVars == <<bucket, tracerfyKey, db, run, runsLeft, faults>>

vars == <<stVars, orVars, fnVars>>

\* Text-analysis results: the parsed answer, and the marker of a failed call.
AnalysisResult == [positioningAngle |-> "Lead with the price history",
                   talkingPoints |-> <<"price", "timing", "marketing">>]
AnalysisFailed == [positioningAngle |-> "Analysis failed", talkingPoints |-> <<>>]
Placeholder == [positioningAngle |-> "Lower priority - not analyzed",
                talkingPoints |-> <<>>]

\* const topListings = sortedByScore.slice(0, 20)
TopCount == 20

\* allProcessedListings...slice(0, 10)
SummaryCount == 10

\* An invocation that has not started.
IdleRun ==
    [pc |-> "idle", outcome |-> "none",
     csvFiles |-> <<>>, processedFiles |-> {}, newFiles |-> <<>>, fileIdx |-> 0,
     scoredListings |-> <<>>, sortedByScore |-> <<>>, i |-> 0,
     totalListings |-> 0, allProcessedListings |-> <<>>,
     \* history, for the properties
     touched |-> {}, parsed |-> <<>>, storeLog |-> <<>>, analysisLog |-> <<>>,
     analysisCalls |-> 0,
     inFlight |-> 0, delaysSinceCall |-> 0, summaries |-> <<>>]

\* { ...listing, urgencyScore: calculateUrgencyScore(listing), csvFilename: file.key }
Scored(listing, key) ==
    [k \in DOMAIN listing \cup {"urgencyScore", "csvFilename"} |->
        CASE k = "urgencyScore" -> calculateUrgencyScore(listing)
          [] k = "csvFilename" -> key
          [] OTHER -> listing[k]]

\* The scored listings of each file of the model, computed once.
ScoredFiles ==
    [o \in UNION {{b[k] : k \in DOMAIN b} : b \in Buckets} |->
        LET listings == ParsedFiles[o.text]
        IN  [k \in DOMAIN listings |-> Scored(listings[k], o.key)]]

\* SortByScore in ascending order.
SortByScoreAscending(listings) ==
    LET n == Len(listings)
        Before(a, b) ==
            \/ listings[a].urgencyScore < listings[b].urgencyScore
            \/ (listings[a].urgencyScore = listings[b].urgencyScore /\ a < b)
        rank(b) == Cardinality({a \in 1..n : Before(a, b)}) + 1
    IN  [k \in 1..n |-> listings[CHOOSE b \in 1..n : rank(b) = k]]

\* [...listings].sort((a, b) => b.urgencyScore - a.urgencyScore): descending,
\* and stable, so equal scores keep their order.
SortByScore(listings) ==
    LET n == Len(listings)
        Before(a, b) ==
            \/ listings[a].urgencyScore > listings[b].urgencyScore
            \/ (listings[a].urgencyScore = listings[b].urgencyScore /\ a < b)
        rank(b) == Cardinality({a \in 1..n : Before(a, b)}) + 1
    IN  [k \in 1..n |-> listings[CHOOSE b \in 1..n : rank(b) = k]]

\* What skipTraceWithTracerfy can return for these listings (its own steps are
\* the ST actions above): the listings themselves, or their match-back against
\* a downloaded result file.
SkipTraceReturns(listings) ==
    {listings} \cup {MatchBack(listings, ParsedResults[t]) : t \in ResultTexts}

\* listing.ownerX || null
OrNull(listing, field) ==
    IF field \in DOMAIN listing /\ Truthy(listing[field]) THEN listing[field] ELSE Null

\* IntelligenceRow without the filename in the stored summary.
IntelligenceRowNoFile(listing) ==
    [topic_id |-> 1,
     title |-> listing.address \o ", " \o listing.city,
     csv_filename |-> Null,
     address |-> listing.address,
     ownerName |-> OrNull(listing, "ownerName"),
     ownerPhone |-> OrNull(listing, "ownerPhone"),
     ownerEmail |-> OrNull(listing, "ownerEmail"),
     analysis |-> listing.analysis,
     relevance_score |-> listing.urgencyScore,
     status |-> "new"]

\* The row storeIntelligence inserts for a listing.
IntelligenceRow(listing) ==
    [topic_id |-> 1,
     title |-> listing.address \o ", " \o listing.city,
     csv_filename |-> listing.csvFilename,
     address |-> listing.address,
     ownerName |-> OrNull(listing, "ownerName"),
     ownerPhone |-> OrNull(listing, "ownerPhone"),
     ownerEmail |-> OrNull(listing, "ownerEmail"),
     analysis |-> listing.analysis,
     relevance_score |-> listing.urgencyScore,
     status |-> "new"]

\* ProcessedFiles as every listing file of the bucket once anything is stored.
ProcessedFilesAll(rows) ==
    IF rows = EmptyBag THEN {}
    ELSE {bucket[k].key : k \in {j \in DOMAIN bucket : EndsWith(bucket[j].key, ".csv")}}

\* new Set(processedResult.results.map(r => r.csv_filename).filter(Boolean))
ProcessedFiles(rows) ==
    {row.csv_filename : row \in {x \in BagToSet(rows) : Truthy(x.csv_filename)}}

\* TopListings without the cap: every listing goes to the analysis loop.
TopListingsAll(sortedByScore) == sortedByScore

\* sortedByScore.slice(0, 20)
TopListings(sortedByScore) == SubSeq(sortedByScore, 1, Min(TopCount, Len(sortedByScore)))

Running(r) == run[r].pc \notin {"idle", "done"}

\* The run returns normally / raises to its caller.
Returned(rec) == [rec EXCEPT !.pc = "done", !.outcome = "returned"]
Raised(rec) == [rec EXCEPT !.pc = "done", !.outcome = "raised"]

CurrentKey(rec) == rec.newFiles[rec.fileIdx].key

\* A collaborator failure is injected while the budget lasts.
Fault == faults > 0 /\ faults' = faults - 1
NoFault == faults' = faults

(***************************************************************************)
(* Triggers                                                                *)
(***************************************************************************)

\* processExpiredListings(env) is entered. With exclusive, a trigger fires only
\* while no invocation is in flight.
StartRun(r, exclusive) ==
    /\ ~Running(r)
    /\ exclusive => \A q \in Runs : ~Running(q)
    /\ runsLeft > 0
    /\ runsLeft' = runsLeft - 1
    /\ run' = [run EXCEPT ![r] = [IdleRun EXCEPT !.pc = "list", !.outcome = "running"]]

Scheduled(exclusive) ==
    /\ StartRun("scheduled", exclusive)
    /\ UNCHANGED <<bucket, tracerfyKey, db, faults, stVars, fnVars>>

\* A POST starts an invocation in the background (ctx.waitUntil) and is
\* acknowledged at once; any other request is answered with the usage text and
\* changes nothing.
Fetch(exclusive) ==
    /\ \E method \in {"POST", "GET"} :
          IF method = "POST"
          THEN StartRun("manual", exclusive)
          ELSE UNCHANGED <<run, runsLeft>>
    /\ UNCHANGED <<bucket, tracerfyKey, db, faults, stVars, fnVars>>

(***************************************************************************)
(* Steps of processExpiredListings, one per await                          *)
(***************************************************************************)

\* 1. env.R2_BUCKET.list, the .csv filter, and the return when nothing is there
ListFiles(r) ==
    /\ run[r].pc = "list"
    /\ \/ /\ Fault
          /\ run' = [run EXCEPT ![r] = Raised(@)]
       \/ /\ NoFault
          /\ LET csvFiles == SelectSeq(bucket, LAMBDA obj : EndsWith(obj.key, ".csv"))
             IN  run' = [run EXCEPT ![r] =
                    IF Len(csvFiles) = 0 THEN Returned(@)
                    ELSE [@ EXCEPT !.csvFiles = csvFiles, !.pc = "query"]]
    /\ UNCHANGED <<bucket, tracerfyKey, db, runsLeft, stVars, fnVars>>

\* IsNew without the processed set: every candidate file is selected.
IsNewAlways(f, processedFiles) == TRUE

\* csvFiles.filter(f => !processedFiles.has(f.key))
IsNew(f, processedFiles) == f.key \notin processedFiles

\* 2-3. the processed filenames, the new files, and the return when there are none
QueryProcessed(r) ==
    /\ run[r].pc = "query"
    /\ \/ /\ Fault
          /\ run' = [run EXCEPT ![r] = Raised(@)]
       \/ /\ NoFault
          /\ LET processedFiles == ProcessedFiles(db)
                 newFiles == SelectSeq(run[r].csvFiles,
                                       LAMBDA f : IsNew(f, processedFiles))
             IN  run' = [run EXCEPT ![r] =
                    IF Len(newFiles) = 0
                    THEN Returned([@ EXCEPT !.processedFiles = processedFiles])
                    ELSE [@ EXCEPT !.processedFiles = processedFiles,
                                   !.newFiles = newFiles,
                                   !.fileIdx = 1,
                                   !.totalListings = 0,
                                   !.allProcessedListings = <<>>,
                                   !.pc = "file"]]
    /\ UNCHANGED <<bucket, tracerfyKey, db, runsLeft, stVars, fnVars>>

\* LoopPc with the analysis loop running one listing past the top listings.
LoopPcOneMore(sortedByScore, i) ==
    IF i <= Len(TopListings(sortedByScore)) + 1 /\ i <= Len(sortedByScore)
    THEN "analyze" ELSE "rest"

\* The position after the listings of a file are sorted, and after each delay:
\* the analysis loop while i is within the top listings, then the remainder.
LoopPc(sortedByScore, i) ==
    IF i <= Len(TopListings(sortedByScore)) THEN "analyze" ELSE "rest"

\* 7. sortedByScore and the start of the analysis loop
Sorted(rec, enrichedListings) ==
    LET sortedByScore == SortByScore(enrichedListings)
    IN  [rec EXCEPT !.scoredListings = <<>>,
                    !.sortedByScore = sortedByScore,
                    !.i = 1,
                    !.pc = LoopPc(sortedByScore, 1)]

\* 4-5. env.R2_BUCKET.get, parseCSV and the scores of one new file
GetFile(r) ==
    /\ run[r].pc = "file"
    /\ run[r].fileIdx <= Len(run[r].newFiles)
    /\ LET file == run[r].newFiles[run[r].fileIdx]
           seen == [run[r] EXCEPT !.touched = @ \cup {<<file.key, "get">>}]
       IN  \/ /\ Fault
              /\ run' = [run EXCEPT ![r] = Raised(seen)]
           \/ \* if (!object) continue
              /\ Fault
              /\ run' = [run EXCEPT ![r] = [seen EXCEPT !.fileIdx = @ + 1]]
           \/ /\ NoFault
              /\ LET scoredListings == ScoredFiles[file]
                     got == [seen EXCEPT !.parsed = Append(@, [key |-> file.key,
                                                              n |-> Len(scoredListings)])]
                 IN  run' = [run EXCEPT ![r] =
                        IF tracerfyKey
                        THEN [got EXCEPT !.scoredListings = scoredListings,
                                         !.pc = "trace"]
                        ELSE Sorted(got, scoredListings)]
    /\ UNCHANGED <<bucket, tracerfyKey, db, runsLeft, stVars, fnVars>>

\* 6. skipTraceWithTracerfy(scoredListings, key) returns
SkipTrace(r) ==
    /\ run[r].pc = "trace"
    /\ \E enrichedListings \in SkipTraceReturns(run[r].scoredListings) :
          run' = [run EXCEPT ![r] =
              Sorted([@ EXCEPT !.touched = @ \cup {<<CurrentKey(run[r]), "trace">>}],
                     enrichedListings)]
    /\ UNCHANGED <<bucket, tracerfyKey, db, runsLeft, faults, stVars, fnVars>>

\* analyzeListingWithClaude(topListings[i]) is called
AnalyzeCall(r) ==
    /\ run[r].pc = "analyze"
    /\ run' = [run EXCEPT ![r] =
          [@ EXCEPT !.pc = "analyzing",
                    !.inFlight = @ + 1,
                    !.analysisCalls = @ + 1,
                    !.analysisLog = Append(@,
                        [key |-> CurrentKey(run[r]),
                         pos |-> run[r].i,
                         score |-> run[r].sortedByScore[run[r].i].urgencyScore]),
                    !.delaysSinceCall = 0,
                    !.touched = @ \cup {<<CurrentKey(run[r]), "analyze">>}]]
    /\ UNCHANGED <<bucket, tracerfyKey, db, runsLeft, faults, stVars, fnVars>>

\* ... and returns: listing.analysis = analysis
AnalyzeReturn(r) ==
    /\ run[r].pc = "analyzing"
    /\ \E analysis \in {AnalysisResult, AnalysisFailed} :
          /\ IF analysis = AnalysisFailed THEN Fault ELSE NoFault
          /\ run' = [run EXCEPT ![r] =
                [@ EXCEPT !.pc = "store",
                          !.inFlight = @ - 1,
                          !.sortedByScore[run[r].i] =
                              [k \in DOMAIN @ \cup {"analysis"} |->
                                  IF k = "analysis" THEN analysis ELSE @[k]]]]
    /\ UNCHANGED <<bucket, tracerfyKey, db, runsLeft, stVars, fnVars>>

\* InsertRow as an insert that ignores a row already in the table.
InsertRowOnce(rows, row) ==
    IF BagIn(row, rows) THEN rows ELSE rows (+) SetToBag({row})

\* INSERT INTO intelligence: nothing keeps a row from being inserted twice.
InsertRow(rows, row) == rows (+) SetToBag({row})

\* storeIntelligence(env.DB, listing): the insert succeeds, or fails and is logged
StoreIntelligence(r, rec, listing) ==
    \/ /\ NoFault
       /\ db' = InsertRow(db, IntelligenceRow(listing))
       /\ run' = [run EXCEPT ![r] =
             [rec EXCEPT !.storeLog = Append(@, [key |-> listing.csvFilename,
                                                  address |-> listing.address,
                                                  score |-> listing.urgencyScore,
                                                  pos |-> run[r].i,
                                                  analysis |-> listing.analysis,
                                                  ok |-> TRUE]),
                         !.touched = @ \cup {<<listing.csvFilename, "store">>}]]
    \/ /\ Fault
       /\ db' = db
       /\ run' = [run EXCEPT ![r] =
             [rec EXCEPT !.storeLog = Append(@, [key |-> listing.csvFilename,
                                                  address |-> listing.address,
                                                  score |-> listing.urgencyScore,
                                                  pos |-> run[r].i,
                                                  analysis |-> listing.analysis,
                                                  ok |-> FALSE]),
                         !.touched = @ \cup {<<listing.csvFilename, "store">>}]]

\* AfterStore without the wait: the loop goes straight to its next iteration.
AfterStoreNoDelay(rec) ==
    [rec EXCEPT !.i = @ + 1, !.pc = LoopPc(rec.sortedByScore, rec.i + 1)]

\* After storeIntelligence in the analysis loop comes the 1-second wait.
AfterStore(rec) == [rec EXCEPT !.pc = "delay"]

\* The analysed listing is stored.
StoreTop(r) ==
    /\ run[r].pc = "store"
    /\ StoreIntelligence(r, AfterStore(run[r]),
                         run[r].sortedByScore[run[r].i])
    /\ UNCHANGED <<bucket, tracerfyKey, runsLeft, stVars, fnVars>>

\* await new Promise(resolve => setTimeout(resolve, 1000)), and i++
Delay(r) ==
    /\ run[r].pc = "delay"
    /\ run' = [run EXCEPT ![r] =
          [@ EXCEPT !.delaysSinceCall = @ + 1,
                    !.i = @ + 1,
                    !.pc = LoopPc(run[r].sortedByScore, run[r].i + 1)]]
    /\ UNCHANGED <<bucket, tracerfyKey, db, runsLeft, faults, stVars, fnVars>>

\* A listing of sortedByScore.slice(20) gets the placeholder and is stored.
StoreRest(r) ==
    /\ run[r].pc = "rest"
    /\ run[r].i <= Len(run[r].sortedByScore)
    /\ LET listing == [k \in DOMAIN run[r].sortedByScore[run[r].i] \cup {"analysis"} |->
                          IF k = "analysis" THEN Placeholder
                          ELSE run[r].sortedByScore[run[r].i][k]]
       IN  StoreIntelligence(r, [run[r] EXCEPT !.sortedByScore[run[r].i] = listing,
                                               !.i = @ + 1],
                             listing)
    /\ UNCHANGED <<bucket, tracerfyKey, runsLeft, stVars, fnVars>>

\* totalListings += listings.length; allProcessedListings grows; next file
FinishFile(r) ==
    /\ run[r].pc = "rest"
    /\ run[r].i > Len(run[r].sortedByScore)
    /\ run' = [run EXCEPT ![r] =
          [@ EXCEPT !.totalListings = @ + run[r].parsed[Len(run[r].parsed)].n,
                    !.allProcessedListings = @ \o run[r].sortedByScore,
                    !.sortedByScore = <<>>,
                    !.i = 0,
                    !.fileIdx = @ + 1,
                    !.pc = "file"]]
    /\ UNCHANGED <<bucket, tracerfyKey, db, runsLeft, faults, stVars, fnVars>>

\* SlackFailed without the catch blocks: the failure reaches the caller.
SlackFailedRaise(rec) == Raised(rec)

\* catch (error) { console.error("Slack error:", error); } and the catch around
\* the call: a failed notification is logged and the run goes on to return.
SlackFailed(rec) == Returned(rec)

\* 8. sendSlackSummary(top 10, totalListings); its failure is logged, not raised
SendSlackSummary(r) ==
    /\ run[r].pc = "file"
    /\ run[r].fileIdx > Len(run[r].newFiles)
    /\ LET ranked == SortByScore(run[r].allProcessedListings)
           topListings == SubSeq(ranked, 1, Min(SummaryCount, Len(ranked)))
       IN  \E delivered \in BOOLEAN :
              /\ IF delivered THEN NoFault ELSE Fault
              /\ LET called == [run[r] EXCEPT !.allProcessedListings = ranked,
                                               !.summaries = Append(@,
                                                   [topListings |-> topListings,
                                                    totalCount |-> run[r].totalListings,
                                                    delivered |-> delivered])]
                 IN  run' = [run EXCEPT ![r] =
                        IF delivered THEN Returned(called) ELSE SlackFailed(called)]
    /\ UNCHANGED <<bucket, tracerfyKey, db, runsLeft, stVars, fnVars>>

\* The steps every invocation can take.
RunStep(r) ==
    \/ ListFiles(r) \/ QueryProcessed(r) \/ GetFile(r)
    \/ AnalyzeCall(r) \/ AnalyzeReturn(r) \/ StoreTop(r) \/ Delay(r)
    \/ FinishFile(r) \/ SendSlackSummary(r)

OrchIdle ==
    /\ db = EmptyBag
    /\ run = [r \in Runs |-> IdleRun]
    /\ runsLeft = MaxRuns
    /\ faults = MaxFaults

\* One invocation at a time over the small buckets: every trigger finds the
\* previous invocation ended.
Init ==
    /\ STIdle
    /\ OrchIdle
    /\ FnIdle
    /\ bucket \in SmallBuckets
    /\ tracerfyKey \in BOOLEAN

\* No file of the small buckets has more than TopCount listings, so the
\* remainder loop (StoreRest) has nothing to do there.
Next ==
    \/ Scheduled(TRUE)
    \/ Fetch(TRUE)
    \/ \E r \in Runs : RunStep(r) \/ SkipTrace(r)

Spec == Init /\ [][Next]_vars

\* Scheduled invocations, one at a time, over the bucket with the large file;
\* no skip-trace key is configured.
InitBig ==
    /\ STIdle
    /\ OrchIdle
    /\ FnIdle
    /\ bucket = BigBucket
    /\ tracerfyKey = FALSE

NextBig ==
    \/ Scheduled(TRUE)
    \/ RunStep("scheduled")
    \/ StoreRest("scheduled")

SpecBig == InitBig /\ [][NextBig]_vars

\* The scheduled and the on-demand trigger with nothing keeping their
\* invocations apart, over one small bucket and without a skip-trace key.
InitRace ==
    /\ STIdle
    /\ OrchIdle
    /\ FnIdle
    /\ bucket = RaceBucket
    /\ tracerfyKey = FALSE

NextRace ==
    \/ Scheduled(FALSE)
    \/ Fetch(FALSE)
    \/ \E r \in Runs : RunStep(r)

SpecRace == InitRace /\ [][NextRace]_vars

(***************************************************************************)
(* The client on its own                                                   *)
(***************************************************************************)

\* A caller hands the client one of the listing sequences.
STStart ==
    /\ stPc = "idle"
    /\ \E listings \in ListingInputs : STBegin(listings)

InitST ==
    /\ STIdle
    /\ OrchIdle
    /\ FnIdle
    /\ bucket = <<>>
    /\ tracerfyKey = TRUE

NextST ==
    \/ STStart /\ UNCHANGED <<orVars, fnVars>>
    \/ STStep /\ UNCHANGED <<orVars, fnVars>>

SpecST == InitST /\ [][NextST]_vars

(***************************************************************************)
(* calculateUrgencyScore on its own                                        *)
(***************************************************************************)

\* Field values of the listings scored: absent, non-numeric, and the values
\* around the thresholds of the rubric.
DomTexts == {Undefined, "abc", "-5", "44", "45", "90", "179", "180"}
CdomTexts == {Undefined, "-5", "90", "91", "136", "180", "181", "361"}
PriceTexts == {Undefined, "0", "149999", "150000", "$249,999", "400000",
               "599999", "600000", "$1,200,000"}
DateTexts == {Undefined, "", "bad date", "2026-10-31", "2026-10-05", "2026-12-01"}
YearTexts == {Undefined, "2011", "2010", "1995"}
BedTexts == {Undefined, "2", "3", "6"}

ScoreInputs ==
    [daysOnMarket : DomTexts, cumulativeDaysOnMarket : CdomTexts, price : PriceTexts,
     expiredDate : DateTexts, yearBuilt : YearTexts, bedrooms : BedTexts]

InitScore ==
    /\ STIdle
    /\ OrchIdle
    /\ bucket = <<>>
    /\ tracerfyKey = FALSE
    /\ fnPc = "ready"
    /\ fnArg \in ScoreInputs
    /\ fnResult = Undefined
    /\ fnTrace = Undefined

\* calculateUrgencyScore(listing) runs and returns.
ScoreCall ==
    /\ fnPc = "ready"
    /\ fnPc' = "returned"
    /\ fnResult' = calculateUrgencyScore(fnArg)
    /\ fnTrace' = Contributions(fnArg)
    /\ UNCHANGED <<fnArg, stVars, orVars>>

NextScore == ScoreCall

SpecScore == InitScore /\ [][NextScore]_vars

(***************************************************************************)
(* parseCSVLine on its own                                                 *)
(***************************************************************************)

\* The data lines tokenized: every text of up to MaxLineLen characters of
\* LineChars.
MaxLineLen == 5
LineChars == {"a", ",", "\"", " "}

RECURSIVE Texts(_, _)
Texts(chars, n) ==
    IF n = 0 THEN {""}
    ELSE LET shorter == Texts(chars, n - 1)
         IN  shorter \cup {t \o c : t \in shorter, c \in chars}

LineInputs == Texts(LineChars, MaxLineLen)

InitLine ==
    /\ STIdle
    /\ OrchIdle
    /\ bucket = <<>>
    /\ tracerfyKey = FALSE
    /\ fnPc = "ready"
    /\ fnArg \in LineInputs
    /\ fnResult = Undefined
    /\ fnTrace = Undefined

\* parseCSVLine(line) runs and returns.
LineCall ==
    /\ fnPc = "ready"
    /\ fnPc' = "returned"
    /\ fnResult' = parseCSVLine(fnArg)
    /\ UNCHANGED <<fnArg, fnTrace, stVars, orVars>>

NextLine == LineCall

SpecLine == InitLine /\ [][NextLine]_vars

(***************************************************************************)
(* parseCSV on its own                                                     *)
(***************************************************************************)

\* The files parsed: a header line (with the address columns, without them, or
\* missing) followed by up to MaxCsvRows of the lines of RowTexts.
MaxCsvRows == 3

AddressHeader == "Street Number,Street Dir Prefix,\"Street Name\",Unit Number, City/Location"
OtherHeader == "Address,City/Location"
HeaderTexts == {AddressHeader, OtherHeader, ""}

RowTexts ==
    { "12,,Oak,,Katy",
      ",,,,Katy",
      " ,\"\", ,  ,Houston",
      "",
      "   ",
      "7,N,\"Elm, Upper\",4",
      ",,,9" }

RECURSIVE RowSeqs(_)
RowSeqs(n) ==
    IF n = 0 THEN {<<>>}
    ELSE LET shorter == RowSeqs(n - 1)
         IN  shorter \cup {Append(rows, row) : rows \in shorter, row \in RowTexts}

CsvInputs == [header : HeaderTexts, rows : RowSeqs(MaxCsvRows)]

\* The text of a file: its lines, each ended by a newline.
RECURSIVE JoinLines(_)
JoinLines(lines) ==
    IF lines = <<>> THEN "" ELSE Head(lines) \o "\n" \o JoinLines(Tail(lines))

CsvText(file) == JoinLines(<<file.header>> \o file.rows)

InitCSV ==
    /\ STIdle
    /\ OrchIdle
    /\ bucket = <<>>
    /\ tracerfyKey = FALSE
    /\ fnPc = "ready"
    /\ fnArg \in CsvInputs
    /\ fnResult = Undefined
    /\ fnTrace = Undefined

\* parseCSV(csvText) runs and returns.
CSVCall ==
    /\ fnPc = "ready"
    /\ fnPc' = "returned"
    /\ fnResult' = parseCSV(CsvText(fnArg))
    /\ UNCHANGED <<fnArg, fnTrace, stVars, orVars>>

NextCSV == CSVCall

SpecCSV == InitCSV /\ [][NextCSV]_vars

(***************************************************************************)
(* Properties of the skip-trace client (checked under SpecST)              *)
(***************************************************************************)

\* Whatever the client's steps return is among the returns the orchestrator's
\* SkipTrace step chooses from, and nothing is raised.
ReturnsCovered ==
    stPc = "done" => (~stRaised /\ stReturn \in SkipTraceReturns(stListings))

\* C1: when no status response is a successful one that indicates completion
\* and carries a result location, the poll loop makes exactly 12 status
\* requests, never a 13th, and ends with no result location.
C1_PollBudget ==
    /\ nStatus <= 12
    /\ (stPc = "check" /\ ~readySeen) => (nStatus = 12 /\ downloadUrl = Null)
    /\ (stPc = "done" /\ stFailure = "timeout") =>
          (nStatus = 12 /\ ~readySeen /\ downloadUrl = Null)

\* A run of twelve unready responses, the last of them a successful one, timed out.
C1_Witness ==
    /\ stPc = "done" /\ stFailure = "timeout"
    /\ nStatus = 12 /\ lastStatus.kind = "ok" /\ ~readySeen

\* C2: no exception leaves skipTraceWithTracerfy, and after a non-success
\* submission, an exhausted poll budget, a non-success download or a throwing
\* step the returned value is the input listing sequence itself.
C2_BestEffort ==
    /\ ~stRaised
    /\ (stPc = "done" /\ stFailure # "none") => stReturn = stListings

\* A download that throws, for a non-empty listing sequence.
C2_Witness ==
    /\ stPc = "done" /\ stFailure = "threw" /\ nDownload = 1
    /\ Len(stListings) > 0 /\ stReturn = stListings

\* Completion and result location as C8 words them.
C8_Complete(body) ==
    \/ OrElse(body.status, body.state) \in {"completed", "complete", "done"}
    \/ body.pending = JsFalse

C8_Locations(body) ==
    {body[f] : f \in {"download_url", "result_url", "file_url", "url"}}
        \ {Undefined, Null, ""}

\* C8: the loop takes a result location only from a successful status response
\* that indicates completion and carries a location; a successful response with
\* only one of the two goes back to the loop head and consumes one attempt.
C8_ReadyOnly ==
    [][ /\ (downloadUrl' # downloadUrl /\ downloadUrl' # Null) =>
              /\ stPc = "status"
              /\ lastStatus'.kind = "ok"
              /\ C8_Complete(lastStatus'.body)
              /\ downloadUrl' \in C8_Locations(lastStatus'.body)
        /\ ( /\ stPc = "status"
             /\ lastStatus'.kind = "ok"
             /\ C8_Complete(lastStatus'.body) # (C8_Locations(lastStatus'.body) # {}) ) =>
              /\ stPc' = "poll"
              /\ attempts' = attempts + 1
              /\ downloadUrl' = Null ]_vars

\* A response with a location but no completion has consumed an attempt.
C8_Witness ==
    /\ stPc = "poll" /\ attempts = 2
    /\ lastStatus.kind = "ok"
    /\ ~C8_Complete(lastStatus.body)
    /\ C8_Locations(lastStatus.body) # {}
    /\ downloadUrl = Null

\* The result row attached to listing i of the call, 0 when none was.
MatchedRow(i) == FindMatch(stListings[i], stResults)

\* The first non-empty of a sequence of values, "" when all are empty.
RECURSIVE FirstNonEmpty(_)
FirstNonEmpty(vs) ==
    IF vs = <<>> THEN ""
    ELSE IF Head(vs) \notin {Undefined, ""} THEN Head(vs)
    ELSE FirstNonEmpty(Tail(vs))

\* C9: on a match ownerName is the row's owner_name when that is non-empty and
\* the trimmed "first_name last_name" otherwise; ownerPhone is the first
\* non-empty of mobile_1, landline_1, phone_1.
C9_OwnerNameAndPhone ==
    (stPc = "done" /\ stFailure = "none") =>
        \A i \in DOMAIN stListings :
            MatchedRow(i) # 0 =>
                LET row == stResults[MatchedRow(i)]
                    combined == Field(row, "owner_name")
                    first == FirstNonEmpty(<<Field(row, "first_name")>>)
                    last == FirstNonEmpty(<<Field(row, "last_name")>>)
                IN  /\ stReturn[i].ownerName =
                          (IF combined \notin {Undefined, ""} THEN combined
                           ELSE Trim(first \o " " \o last))
                    /\ stReturn[i].ownerPhone =
                          FirstNonEmpty(<<Field(row, "mobile_1"),
                                          Field(row, "landline_1"),
                                          Field(row, "phone_1")>>)

\* The first space-delimited token of an address, lower-cased and trimmed.
C10_Normal(address) == Trim(ToLowerCase(address))

C10_FirstToken(address) ==
    LET t == C10_Normal(address)
        spaces == {k \in 1..Len(t) : Char(t, k) = " "}
    IN  IF spaces = {} THEN t
        ELSE SubSeq(t, 1, (CHOOSE k \in spaces : \A m \in spaces : k <= m) - 1)

C10_Substring(sub, s) ==
    \E a \in 1..(Len(s) + 1) : \E b \in (a - 1)..Len(s) : SubSeq(s, a, b) = sub

\* The rows C10 lets a listing be paired with.
C10_Candidates(listing) ==
    {j \in DOMAIN stResults :
        LET rowAddress == FirstNonEmpty(<<Field(stResults[j], "address")>>)
        IN  \/ C10_Substring(C10_FirstToken(rowAddress), C10_Normal(listing.address))
            \/ C10_Substring(C10_FirstToken(listing.address), C10_Normal(rowAddress))}

\* C10: match-back returns as many listings as it was given, in the same order,
\* each paired with the earliest result row whose address's first token is in
\* the listing address or whose address contains the listing address's first
\* token; a listing with no such row is returned unchanged.
C10_MatchBack ==
    (stPc = "done" /\ stFailure = "none") =>
        /\ Len(stReturn) = Len(stListings)
        /\ \A i \in DOMAIN stListings :
              LET cands == C10_Candidates(stListings[i])
              IN  IF cands = {}
                  THEN stReturn[i] = stListings[i]
                  ELSE LET j == CHOOSE j \in cands : \A k \in cands : j <= k
                       IN  /\ stReturn[i] = Attach(stListings[i], stResults[j])
                           /\ \A f \in DOMAIN stListings[i] :
                                 stReturn[i][f] = stListings[i][f]

\* Two listings paired with the same row, the second of two candidates being
\* passed over for one of them, and a third listing left without owner fields.
C10_Witness ==
    /\ stPc = "done" /\ stFailure = "none"
    /\ \E i, k \in DOMAIN stListings :
          /\ i # k
          /\ MatchedRow(i) = 1 /\ MatchedRow(k) = 1
          /\ Cardinality(C10_Candidates(stListings[i])) = 2
    /\ \E i \in DOMAIN stListings :
          /\ C10_Candidates(stListings[i]) = {}
          /\ DOMAIN stReturn[i] \cap OwnerFields = {}

(***************************************************************************)
(* Properties of the orchestrator (checked under Spec, SpecBig, SpecRace)  *)
(***************************************************************************)

\* What an invocation can do for a file.
FileOps == {"get", "trace", "analyze", "store"}

\* The filenames of a sequence of bucket objects.
Keys(files) == {files[k].key : k \in DOMAIN files}

\* C3: in one run, a candidate file whose name is in the processed set read at
\* the start of the run is never retrieved, skip-traced, analysed or stored.
C3_ProcessedUntouched ==
    \A r \in Runs :
        \A key \in Keys(run[r].csvFiles) \cap run[r].processedFiles :
            \A op \in FileOps : <<key, op>> \notin run[r].touched

\* A run that left a processed candidate alone while it stored another file.
C3_Witness ==
    \E r \in Runs :
        /\ run[r].outcome = "returned"
        /\ Keys(run[r].csvFiles) \cap run[r].processedFiles # {}
        /\ \E key \in Keys(run[r].newFiles) : <<key, "store">> \in run[r].touched

\* The rows of the table for one listing of one file.
RowsOf(key, address) ==
    {row \in BagToSet(db) : row.csv_filename = key /\ row.address = address}

\* How many such rows there are, copies counted.
RECURSIVE CopiesOf(_)
CopiesOf(rows) ==
    IF rows = {} THEN 0
    ELSE LET row == CHOOSE x \in rows : TRUE
         IN  CopiesIn(row, db) + CopiesOf(rows \ {row})

\* The store attempts of a run for one file.
Attempts(r, key) == SelectSeq(run[r].storeLog, LAMBDA e : e.key = key)

\* The original wording of C4: a run that returns normally has a stored record
\* for every listing of every file it selected.
C4_AllStoredOrRaised ==
    \A r \in Runs :
        run[r].outcome = "returned" =>
            \A k \in DOMAIN run[r].newFiles :
                LET file == run[r].newFiles[k]
                IN  \A j \in DOMAIN ScoredFiles[file] :
                        RowsOf(file.key, ScoredFiles[file][j].address) # {}

\* C4: in a run that returns normally, a store was attempted for every listing
\* of every selected file that was retrieved, and every listing whose write
\* succeeded has its record in storage; a write that fails is logged and
\* swallowed, and a file whose retrieval returns nothing is passed over, so
\* the run can return normally while listings are missing from storage.
C4_AttemptedAndKept ==
    \A r \in Runs :
        run[r].outcome = "returned" =>
            /\ \A k \in DOMAIN run[r].parsed :
                  LET key == run[r].parsed[k].key
                      listings == ScoredFiles[CHOOSE o \in {run[r].newFiles[m] :
                                      m \in DOMAIN run[r].newFiles} : o.key = key]
                  IN  /\ key \in Keys(run[r].newFiles)
                      /\ \A j \in DOMAIN listings :
                            \E a \in DOMAIN Attempts(r, key) :
                                Attempts(r, key)[a].address = listings[j].address
            /\ \A a \in DOMAIN run[r].storeLog :
                  run[r].storeLog[a].ok =>
                      RowsOf(run[r].storeLog[a].key, run[r].storeLog[a].address) # {}

\* A run that returned normally after one write of a file failed and another
\* succeeded.
C4_Witness ==
    \E r \in Runs :
        /\ run[r].outcome = "returned"
        /\ \E a, b \in DOMAIN run[r].storeLog :
              /\ run[r].storeLog[a].key = run[r].storeLog[b].key
              /\ run[r].storeLog[a].ok /\ ~run[r].storeLog[b].ok
              /\ RowsOf(run[r].storeLog[b].key, run[r].storeLog[b].address) = {}

\* The sorted listings of a retrieved file, as the run ranked them.
Ranked(r, key) ==
    LET file == CHOOSE o \in {run[r].newFiles[m] : m \in DOMAIN run[r].newFiles} :
                    o.key = key
    IN  SortByScore(ScoredFiles[file])

\* C5: in a run that does not raise, for every selected file that is retrieved
\* storeIntelligence is invoked exactly once per listing, in rank order: ranks
\* 1..20 carry the analysis result or the analysis-failed marker, every rank
\* beyond 20 carries the placeholder; none is skipped, none written twice.
C5_OncePerListing ==
    \A r \in Runs :
        run[r].outcome = "returned" =>
            \A k \in DOMAIN run[r].parsed :
                LET key == run[r].parsed[k].key
                    log == Attempts(r, key)
                    ranked == Ranked(r, key)
                IN  /\ Len(log) = run[r].parsed[k].n
                    /\ Len(log) = Len(ranked)
                    /\ \A p \in DOMAIN log :
                          /\ log[p].pos = p
                          /\ log[p].address = ranked[p].address
                          /\ IF p <= 20
                             THEN log[p].analysis \in {AnalysisResult, AnalysisFailed}
                             ELSE log[p].analysis = Placeholder

\* A run that returned after a file of more than 20 listings, one of whose
\* analyses failed.
C5_Witness ==
    \E r \in Runs :
        /\ run[r].outcome = "returned"
        /\ \E k \in DOMAIN run[r].parsed :
              /\ run[r].parsed[k].n > 20
              /\ Len(Attempts(r, run[r].parsed[k].key)) = run[r].parsed[k].n
        /\ \E a, b \in DOMAIN run[r].storeLog :
              /\ run[r].storeLog[a].analysis = AnalysisFailed
              /\ run[r].storeLog[b].analysis = Placeholder

\* Both invocations selected and retrieved the file and none of their writes
\* failed.
BothProcessed(key) ==
    \A r \in Runs :
        /\ run[r].outcome = "returned"
        /\ key \in Keys(run[r].newFiles)
        /\ \E k \in DOMAIN run[r].parsed : run[r].parsed[k].key = key
        /\ \A a \in DOMAIN run[r].storeLog : run[r].storeLog[a].ok

\* C6: nothing keeps two concurrent invocations from selecting the same
\* unprocessed file; when both have, and have run to the end with every write
\* succeeding, every listing of the file is in storage twice.
C6_Duplicates ==
    \A o \in {bucket[k] : k \in DOMAIN bucket} :
        BothProcessed(o.key) =>
            \A j \in DOMAIN ScoredFiles[o] :
                CopiesOf(RowsOf(o.key, ScoredFiles[o][j].address)) >= 2

\* The scheduled and the on-demand invocation both read an empty processed set,
\* both selected the same file, and each of its listings is stored twice.
C6_Witness ==
    \E o \in {bucket[k] : k \in DOMAIN bucket} :
        /\ BothProcessed(o.key)
        /\ \A r \in Runs : run[r].processedFiles = {}
        /\ Len(ScoredFiles[o]) > 0
        /\ \A j \in DOMAIN ScoredFiles[o] :
              CopiesOf(RowsOf(o.key, ScoredFiles[o][j].address)) = 2

\* C7: in every run an analysis call starts only when none is in flight, and
\* every call but the first of the run is preceded by a full delay step since
\* the call before it, also from one file to the next.
C7_OneAtATimeWithDelay ==
    [][ \A r \in Runs :
           (run'[r].analysisCalls = run[r].analysisCalls + 1) =>
               /\ run[r].inFlight = 0
               /\ run'[r].inFlight = 1
               /\ run[r].analysisCalls = 0 \/ run[r].delaysSinceCall >= 1 ]_vars

\* The first analysis call of a second file is in flight, after the delay that
\* followed the last call of the first file.
C7_Witness ==
    \E r \in Runs :
        /\ run[r].pc = "analyzing"
        /\ Len(run[r].parsed) = 2
        /\ run[r].parsed[1].n > 0
        /\ run[r].i = 1
        /\ run[r].delaysSinceCall = 0
        /\ run[r].analysisCalls = run[r].parsed[1].n + 1

\* The scores of the listings of the files a run retrieved, file after file.
RECURSIVE ScoresUpTo(_, _)
ScoresUpTo(r, k) ==
    IF k = 0 THEN <<>>
    ELSE LET ranked == Ranked(r, run[r].parsed[k].key)
         IN  ScoresUpTo(r, k - 1) \o [j \in DOMAIN ranked |-> ranked[j].urgencyScore]

AllScores(r) == ScoresUpTo(r, Len(run[r].parsed))

\* How often a value occurs in a sequence.
Occurrences(seq, v) == Cardinality({j \in DOMAIN seq : seq[j] = v})

\* C11: a run that reaches the final handoff calls the notification once, after
\* every store of every selected file, with the number N of listings normalized
\* in the run and with min(10, N) of them in non-increasing score order, no
\* listing left out scoring strictly higher than one that is in the list.
C11_Summary ==
    \A r \in Runs :
        /\ Len(run[r].summaries) <= 1
        /\ Len(run[r].summaries) = 1 =>
              LET s == run[r].summaries[1]
                  all == AllScores(r)
                  top == [j \in DOMAIN s.topListings |-> s.topListings[j].urgencyScore]
              IN  /\ run[r].pc = "done"
                  /\ s.totalCount = Len(all)
                  /\ Len(run[r].storeLog) = Len(all)
                  /\ Len(top) = IF Len(all) < 10 THEN Len(all) ELSE 10
                  /\ \A j \in 1..(Len(top) - 1) : top[j] >= top[j + 1]
                  /\ \A v \in {all[j] : j \in DOMAIN all} :
                        /\ Occurrences(top, v) <= Occurrences(all, v)
                        /\ Occurrences(top, v) < Occurrences(all, v) =>
                              \A j \in DOMAIN top : top[j] >= v
                  /\ \A j \in DOMAIN top : Occurrences(all, top[j]) > 0

\* A summary of ten listings out of more than ten, taken from two files, with
\* a listing left out.
C11_Witness ==
    \E r \in Runs :
        /\ Len(run[r].summaries) = 1
        /\ run[r].summaries[1].totalCount > 10
        /\ Len(run[r].summaries[1].topListings) = 10
        /\ Len(run[r].parsed) = 2
        /\ \E a, b \in DOMAIN run[r].summaries[1].topListings :
              run[r].summaries[1].topListings[a].csvFilename
                  # run[r].summaries[1].topListings[b].csvFilename

\* C12: when the notification call fails, the run still returns normally and
\* the rows stored before it stay as they were.
C12_NotificationFailure ==
    [][ \A r \in Runs :
           ( /\ Len(run'[r].summaries) = Len(run[r].summaries) + 1
             /\ ~run'[r].summaries[Len(run'[r].summaries)].delivered ) =>
               /\ run'[r].pc = "done"
               /\ run'[r].outcome = "returned"
               /\ db' = db ]_vars

\* A run that stored rows, whose notification then failed, and that returned.
C12_Witness ==
    \E r \in Runs :
        /\ run[r].outcome = "returned"
        /\ Len(run[r].summaries) = 1
        /\ ~run[r].summaries[1].delivered
        /\ \E a \in DOMAIN run[r].storeLog : run[r].storeLog[a].ok
        /\ db # EmptyBag

(***************************************************************************)
(* Properties of calculateUrgencyScore (SpecScore)                         *)
(***************************************************************************)

\* C13: whatever the DOM, CDOM, price, expiration age, year built and bedroom
\* count of a listing, absent and non-numeric values included, the score is a
\* whole number of tenths from 0 to 10 (here: an integer from 0 to 100 tenths).
C13_ScoreRange ==
    fnPc = "returned" => fnResult \in 0..100

\* Scores returned for a listing with every field absent and for one with a
\* non-numeric DOM and an unparsable date.
C13_Witness ==
    /\ fnPc = "returned"
    /\ fnResult \in 0..100
    /\ \/ \A f \in DOMAIN fnArg : fnArg[f] = Undefined
       \/ fnArg.daysOnMarket = "abc" /\ fnArg.expiredDate = "bad date"

\* The numbers calculateUrgencyScore reads from the listing of the call.
ArgDom == ParseIntOr(fnArg.daysOnMarket, 0)
ArgCdom == ParseIntOr(fnArg.cumulativeDaysOnMarket, 0)
ArgPrice == ParseIntOr(StripCurrency(fnArg.price), 0)

Positions(text, c) == {k \in 1..Len(text) : Char(text, k) = c}

\* The commas of a line met while the quote toggle is off: those with an even
\* number of double quotes before them.
OpenCommas(line) ==
    {k \in Positions(line, ",") :
        Cardinality({q \in Positions(line, "\"") : q < k}) % 2 = 0}

\* The commas inside the fields returned.
RECURSIVE KeptCommas(_)
KeptCommas(fields) ==
    IF fields = <<>> THEN 0
    ELSE Cardinality(Positions(Head(fields), ",")) + KeptCommas(Tail(fields))

\* C15: parseCSVLine returns 1 + (the number of commas met while the quote
\* toggle is off) fields; a comma between an opening and a closing quote stays
\* inside its field and splits nothing; no field holds a double quote.
C15_Fields ==
    fnPc = "returned" =>
        /\ Len(fnResult) = 1 + Cardinality(OpenCommas(fnArg))
        /\ KeptCommas(fnResult) =
              Cardinality(Positions(fnArg, ",")) - Cardinality(OpenCommas(fnArg))
        /\ \A k \in DOMAIN fnResult : Positions(fnResult[k], "\"") = {}

\* A line with a quoted comma and an unquoted one gave two fields, the first
\* with the comma in it.
C15_Witness ==
    /\ fnPc = "returned"
    /\ fnArg = "\",\",a"
    /\ fnResult = <<",", "a">>

(***************************************************************************)
(* Properties of parseCSV (SpecCSV)                                        *)
(***************************************************************************)

\* The address each line of RowTexts assembles to under AddressHeader: its
\* non-empty address sub-fields joined by single spaces.
AssembledAddress(row) ==
    CASE row = "12,,Oak,,Katy" -> "12 Oak"
      [] row = "7,N,\"Elm, Upper\",4" -> "7 N Elm, Upper 4"
      [] row = ",,,9" -> "9"
      [] OTHER -> ""

\* A line that is not blank.
NonBlank(line) == \E k \in 1..Len(line) : Char(line, k) \notin {" ", "\t", "\r"}

\* The addresses the file of the call is to give, in input order. Without a
\* header line the first non-blank line is read as the header, and no line of
\* RowTexts names an address column.
RECURSIVE ExpectedAddresses(_, _)
ExpectedAddresses(header, rows) ==
    IF rows = <<>> THEN <<>>
    ELSE LET address == IF header = AddressHeader /\ NonBlank(Head(rows))
                        THEN AssembledAddress(Head(rows)) ELSE ""
             rest == ExpectedAddresses(header, Tail(rows))
         IN  IF address = "" THEN rest ELSE <<address>> \o rest

\* C16: parseCSV returns, in input order, one listing for each non-blank data
\* row whose assembled address is non-empty and none for a row whose assembled
\* address is empty; it returns nothing for fewer than two non-blank lines.
C16_OnePerAddressedRow ==
    fnPc = "returned" =>
        LET expected == ExpectedAddresses(fnArg.header, fnArg.rows)
            lines == SelectSeq(<<fnArg.header>> \o fnArg.rows, NonBlank)
        IN  /\ Len(fnResult) = Len(expected)
            /\ \A k \in DOMAIN expected : fnResult[k].address = expected[k]
            /\ Len(lines) < 2 => fnResult = <<>>

\* Three data rows, a blank one and one without an address among them, gave
\* the two listings of the other rows, in order.
C16_Witness ==
    /\ fnPc = "returned"
    /\ fnArg.header = AddressHeader
    /\ fnArg.rows = <<"7,N,\"Elm, Upper\",4", ",,,,Katy", "12,,Oak,,Katy">>
    /\ Len(fnResult) = 2
    /\ fnResult[1].address = "7 N Elm, Upper 4"
    /\ fnResult[2].address = "12 Oak"
    /\ fnResult[2].city = "Katy"

(***************************************************************************)
(* Further properties of the orchestrator                                  *)
(***************************************************************************)

\* The analysis calls of a run for one file.
Analyses(r, key) == SelectSeq(run[r].analysisLog, LAMBDA e : e.key = key)

\* C17: for every processed file at most 20 analysis calls are made, and every
\* analysed listing scores at least as high as every listing of the same file
\* that gets the placeholder.
C17_TopTwenty ==
    \A r \in Runs :
        \A key \in Keys(run[r].newFiles) :
            /\ Len(Analyses(r, key)) <= 20
            /\ \A a \in DOMAIN Analyses(r, key) :
                  \A e \in DOMAIN Attempts(r, key) :
                      Attempts(r, key)[e].analysis = Placeholder =>
                          Analyses(r, key)[a].score >= Attempts(r, key)[e].score

\* Twenty calls were made for a file and a further listing of it, scoring no
\* higher than any analysed one, was stored with the placeholder.
C17_Witness ==
    \E r \in Runs :
        \E key \in Keys(run[r].newFiles) :
            /\ Len(Analyses(r, key)) = 20
            /\ \E e \in DOMAIN Attempts(r, key) :
                  /\ Attempts(r, key)[e].analysis = Placeholder
                  /\ \A a \in DOMAIN Analyses(r, key) :
                        Analyses(r, key)[a].score >= Attempts(r, key)[e].score

\* The candidate files of the bucket: the objects whose name ends in ".csv".
Candidates ==
    {bucket[k].key : k \in {j \in DOMAIN bucket :
        /\ Len(bucket[j].key) >= 4
        /\ SubSeq(bucket[j].key, Len(bucket[j].key) - 3, Len(bucket[j].key)) = ".csv"}}

\* The filenames the stored rows carry.
StoredNames == {row.csv_filename : row \in BagToSet(db)} \ {Null, Undefined, ""}

\* The run did nothing for any file and ended normally.
EndedUntouched(rec) ==
    /\ rec.pc = "done"
    /\ rec.outcome = "returned"
    /\ rec.touched = {}
    /\ rec.parsed = <<>>
    /\ rec.analysisCalls = 0
    /\ rec.storeLog = <<>>
    /\ rec.summaries = <<>>

\* C18: when the bucket listing shows no candidate file, or the processed set
\* read holds the name of every candidate, the run ends normally there: no
\* error, no retrieval, no skip-trace request, no analysis call, no storage
\* write and no notification.
C18_NothingToDo ==
    [][ \A r \in Runs :
           ( /\ run'[r] # run[r]
             /\ faults' = faults
             /\ \/ run[r].pc = "list" /\ Candidates = {}
                \/ run[r].pc = "query" /\ Candidates \subseteq StoredNames ) =>
               /\ EndedUntouched(run'[r])
               /\ db' = db ]_vars

\* A run that found every candidate already processed and ended untouched,
\* with the rows of an earlier run in storage.
C18_Witness ==
    \E r \in Runs :
        /\ EndedUntouched(run[r])
        /\ run[r].csvFiles # <<>>
        /\ Keys(run[r].csvFiles) \subseteq run[r].processedFiles
        /\ db # EmptyBag


\* C19: within one skipTraceWithTracerfy call the external requests are
\* strictly ordered: at most one submission is made; a status request is made
\* only after the submission returned success; each status request is preceded
\* by one 10-second wait of its own; at most one download request is made, and
\* only after a status response that indicated completion with a result
\* location; after that response no further status request is made.
C19_RequestOrder ==
    [][ /\ nSubmit' <= 1
        /\ nDownload' <= 1
        /\ stFailure' = "submit" => (nWait' = 0 /\ nStatus' = 0 /\ nDownload' = 0)
        /\ nStatus' # nStatus =>
              /\ nSubmit = 1
              /\ stFailure = "none" /\ ~stRaised /\ stPc # "done"
              /\ nWait = nStatus + 1
              /\ ~readySeen
              /\ nDownload = 0
        /\ nWait' # nWait => (nWait = nStatus /\ ~readySeen /\ nSubmit = 1)
        /\ nDownload' # nDownload =>
              /\ readySeen
              /\ RespReady(lastStatus)
              /\ nStatus >= 1 ]_vars

\* A call that submitted once, asked for the status three times, each time
\* after a wait, and downloaded once after the ready response.
C19_Witness ==
    /\ stPc = "done"
    /\ nSubmit = 1
    /\ nWait = 3 /\ nStatus = 3
    /\ nDownload = 1
    /\ readySeen


\* The run has a successful storage write for the file.
WroteFor(rec, key) ==
    \E a \in DOMAIN rec.storeLog : rec.storeLog[a].key = key /\ rec.storeLog[a].ok

\* C20: a file becomes part of the processed set only through a stored record
\* that carries its filename. A name enters storage only with a successful
\* write of a run for that file; while a run has selected a file and no write
\* of it for the file has succeeded (the file gave no listings, its retrieval
\* returned nothing, or every write failed) the name is absent from storage,
\* also when the run ends; every run that reads the processed set selects
\* exactly the candidates whose name no stored record carries, and a run that
\* returns normally has retrieved every file it selected.
C20_ProcessedOnlyByRecord ==
    [][ /\ \A key \in StoredNames' \ StoredNames :
              \E r \in Runs :
                 /\ Len(run'[r].storeLog) = Len(run[r].storeLog) + 1
                 /\ run'[r].storeLog[Len(run'[r].storeLog)].key = key
                 /\ run'[r].storeLog[Len(run'[r].storeLog)].ok
                 /\ key \in Keys(run[r].newFiles)
        /\ \A r \in Runs :
              run'[r] # run[r] =>
                 /\ \A key \in Keys(run'[r].newFiles) :
                       ~WroteFor(run'[r], key) => key \notin StoredNames'
                 /\ ( /\ run[r].pc = "query"
                      /\ faults' = faults ) =>
                        /\ run'[r].processedFiles = StoredNames
                        /\ Keys(run'[r].newFiles) = Candidates \ StoredNames
                 /\ run'[r].outcome = "returned" =>
                       \A key \in Keys(run'[r].newFiles) :
                          <<key, "get">> \in run'[r].touched ]_vars

\* A run ended after one of its files gave no listings and the only write for
\* the other failed, and the next run has retrieved both files again and
\* stored the listing.
C20_Witness ==
    \E q, r \in Runs :
        /\ q # r
        /\ run[q].pc = "done"
        /\ runsLeft = 0
        /\ Running(r)
        /\ \E k \in DOMAIN run[q].parsed :
              run[q].parsed[k] = [key |-> "expired-listings/none.csv", n |-> 0]
        /\ Len(run[q].storeLog) = 1
        /\ run[q].storeLog[1].key = "expired-listings/one.csv"
        /\ ~run[q].storeLog[1].ok
        /\ Keys(run[r].newFiles) = Keys(run[q].newFiles)
        /\ <<"expired-listings/none.csv", "get">> \in run[r].touched
        /\ WroteFor(run[r], "expired-listings/one.csv")


\* The result row has no address: the column is missing or its value is empty.
NoAddress(row) == Field(row, "address") \in {Undefined, ""}

\* C21: in match-back a contact record whose address field is empty or
\* missing satisfies the match predicate against every listing, so when such
\* a record is the first of the result set every listing is returned with the
\* owner fields of that record.
C21_EmptyAddressMatchesAll ==
    (stPc = "done" /\ stFailure = "none") =>
        /\ \A j \in DOMAIN stResults :
              NoAddress(stResults[j]) =>
                 \A i \in DOMAIN stListings : AddressMatches(stListings[i], stResults[j])
        /\ (stResults # <<>> /\ NoAddress(stResults[1])) =>
              \A i \in DOMAIN stListings :
                 /\ OwnerFields \subseteq DOMAIN stReturn[i]
                 /\ stReturn[i] = Attach(stListings[i], stResults[1])

\* Four listings all returned with the owner fields of a first row whose
\* address is empty, one of them having its own address in the second row.
C21_Witness ==
    /\ stPc = "done" /\ stFailure = "none"
    /\ Len(stListings) = 4
    /\ Len(stResults) = 2
    /\ Field(stResults[1], "address") = ""
    /\ \E i \in DOMAIN stListings :
          C10_FirstToken(stListings[i].address)
              = C10_FirstToken(Field(stResults[2], "address"))
    /\ \A i \in DOMAIN stListings :
          /\ stReturn[i].ownerName = OwnerName(stResults[1])
          /\ stReturn[i].ownerPhone = OwnerPhone(stResults[1])
          /\ stReturn[i].ownerPhone # ""


\* The six additions of the call summed, in hundredths of a point.
SummedValue ==
    fnTrace.motivation + fnTrace.freshness + fnTrace.repeatFailure
    + fnTrace.pricePoint + fnTrace.age + fnTrace.bedrooms

\* C22: every score calculateUrgencyScore returns is a multiple of 0.5 and at
\* least 1.0, the DOM factor and the repeat-failure factor each adding at
\* least 0.5; the six additions are multiples of 0.5 whose sum never exceeds
\* 10, so the rounding and the cap return the sum unchanged (scores in tenths,
\* additions in hundredths).
C22_HalvesFromOne ==
    fnPc = "returned" =>
        /\ fnResult % 5 = 0
        /\ fnResult >= 10
        /\ fnTrace.motivation >= 50
        /\ fnTrace.repeatFailure >= 50
        /\ \A f \in DOMAIN fnTrace : fnTrace[f] >= 0 /\ fnTrace[f] % 50 = 0
        /\ SummedValue <= 1000
        /\ fnResult * 10 = SummedValue

\* A listing for which every factor adds its most: the sum is exactly 10 and
\* is the score returned.
C22_Witness ==
    /\ fnPc = "returned"
    /\ SummedValue = 1000
    /\ fnResult = 100

=============================================================================
